---------------------------- MODULE Spec2Model ----------------------------
(***************************************************************************)
(* Model of the two programs of gnu-like-tools:                            *)
(*   rcat   (src/rcat/src/main.rs)   - concatenate files to stdout         *)
(*   rtouch (src/rtouch/src/main.rs) - update file access/modification     *)
(*                                     times                               *)
(* Three specifications over one set of variables:                         *)
(*   SpecCat    one run of rcat                                            *)
(*   SpecTouch  one run of rtouch                                          *)
(*   SpecParse  one call of rtouch's parse_time                            *)
(* Text is a sequence of one-character strings.  Instants are whole        *)
(* seconds since the Unix epoch plus a millisecond part.                   *)
(***************************************************************************)
EXTENDS Integers, Sequences, FiniteSets, TLC

VARIABLES
  \* ---- rcat ----
  cat_args,      \* Args: [number, show_ends, files]
  cat_fs,        \* the filesystem rcat reads: path -> node
  cat_pc,        \* "loop", "read", "print", "done", "exited", "aborted"
  cat_idx,       \* position of `for path in args.files`
  cat_pos,       \* read position of the BufReader in the open file
  cat_lines,     \* the Vec<String> file_to_lines is collecting / has returned
  cat_i,         \* position of `for (i, line) in lines.iter().enumerate()`
  cat_stdout,    \* everything written to standard output
  cat_mark,      \* Len(cat_stdout) when the current file was opened
  cat_printed,   \* the string_buffers printed for the current file
  cat_stderr,    \* diagnostics written to standard error
  cat_status,    \* process exit status, -1 while running
  cat_opened,    \* the paths File::open was called on, in order
  cat_finished,  \* the paths whose lines have all been printed, in order
  \* ---- rtouch ----
  touch_args,        \* Args
  touch_fs,          \* the filesystem rtouch works on: path -> node
  touch_fs0,         \* the filesystem as it was when rtouch started
  touch_clock,       \* the wall clock, in seconds
  touch_time,        \* `time`, SystemTime::now() at the top of main
  touch_file_times,  \* `file_times`
  touch_pc,          \* "start", "resolve", "update", "done", "panicked"
  touch_idx,         \* position of `for file in &args.files`
  touch_stderr,      \* diagnostics written to standard error
  touch_calls,       \* one record per update_file call made by main
  touch_ref,         \* what parse_reference returned, if it was called
  \* ---- parse_time ----
  parse_input,       \* the `time` argument
  parse_pc,          \* "loop", "returned", "panicked"
  parse_k,           \* position of `for format in formats`
  parse_result       \* the Result returned

cat_vars == <<cat_args, cat_fs, cat_pc, cat_idx, cat_pos, cat_lines, cat_i,
              cat_stdout, cat_mark, cat_printed, cat_stderr, cat_status,
              cat_opened, cat_finished>>

touch_vars == <<touch_args, touch_fs, touch_fs0, touch_clock, touch_time,
                touch_file_times, touch_pc, touch_idx, touch_stderr,
                touch_calls, touch_ref>>

parse_vars == <<parse_input, parse_pc, parse_k, parse_result>>

vars == <<cat_vars, touch_vars, parse_vars>>

-----------------------------------------------------------------------------
(* Bounds *)

\* longest generated file content, in characters
MaxLen == 2
\* most paths on one command line
MaxFiles == 2
\* number of Strings the Vec can hold before the allocator gives up
MemCap == 11
\* most clock ticks during one run of rtouch
MaxTicks == 1

-----------------------------------------------------------------------------
(* Text helpers *)

LF == "\n"
CR == "\r"

RECURSIVE SeqsUpTo(_, _)
SeqsUpTo(S, n) ==
  IF n = 0 THEN {<<>>}
  ELSE LET shorter == SeqsUpTo(S, n - 1)
       IN  shorter \cup {Append(s, c) : s \in shorter, c \in S}

RECURSIVE Repeat(_, _)
Repeat(c, n) == IF n = 0 THEN <<>> ELSE <<c>> \o Repeat(c, n - 1)

Last(s) == s[Len(s)]
Front(s) == SubSeq(s, 1, Len(s) - 1)

-----------------------------------------------------------------------------
(* rcat *)

CatPaths == {"p1", "p2"}

\* "a", "bb", "ccc" each on a line of its own
ThreeLines == <<"a", LF, "b", "b", LF, "c", "c", "c", LF>>
\* ten empty lines: line numbers of two digits
TenLines == Repeat(LF, 10)
CrLfLine == <<"a", CR, LF>>

CatContents ==
  SeqsUpTo({"a", LF}, MaxLen) \cup {ThreeLines, TenLines, CrLfLine}

\* What a path names: a readable file, a directory (opens, every read fails
\* with EISDIR), nothing, a file without read permission, or a path whose
\* open fails with another error kind.
CatNodes ==
  [kind : {"file"}, content : CatContents]
    \cup [kind : {"dir", "missing", "noperm", "ioerr"}, content : {<<>>}]

CatFileLists == SeqsUpTo(CatPaths, MaxFiles) \ {<<>>}

\* rcat starts; the other programs stay idle
CatInit ==
  /\ cat_args \in [number : BOOLEAN, show_ends : BOOLEAN, files : CatFileLists]
  /\ cat_fs \in [CatPaths -> CatNodes]
  /\ cat_pc = "loop"
  /\ cat_idx = 1
  /\ cat_pos = 1
  /\ cat_lines = <<>>
  /\ cat_i = 0
  /\ cat_stdout = <<>>
  /\ cat_mark = 0
  /\ cat_printed = <<>>
  /\ cat_stderr = <<>>
  /\ cat_status = -1
  /\ cat_opened = <<>>
  /\ cat_finished = <<>>
  \* rtouch and parse_time do not run
  /\ touch_args = <<>>
  /\ touch_fs = <<>>
  /\ touch_fs0 = <<>>
  /\ touch_clock = 0
  /\ touch_time = <<>>
  /\ touch_file_times = <<>>
  /\ touch_pc = "idle"
  /\ touch_idx = 1
  /\ touch_stderr = <<>>
  /\ touch_calls = <<>>
  /\ touch_ref = <<>>
  /\ parse_input = <<>>
  /\ parse_pc = "idle"
  /\ parse_k = 1
  /\ parse_result = <<>>

\* File::open(&path): the error kind, or "ok"
CatOpenResult(node) ==
  CASE node.kind = "missing" -> "NotFound"
    [] node.kind = "noperm"  -> "PermissionDenied"
    [] node.kind = "ioerr"   -> "Other"
    [] OTHER                 -> "ok"

\* the map_err closure: the diagnostic for an error kind
CatDiagnostic(kind, path) ==
  CASE kind = "NotFound"         -> [msg |-> "File not found: ", path |-> path]
    [] kind = "PermissionDenied" -> [msg |-> "Permission denied: ", path |-> path]
    [] OTHER                     -> [msg |-> "Error opening file: ", path |-> path]

\* index of the first LF of content at or after pos, 0 when there is none
RECURSIVE FindLF(_, _)
FindLF(content, pos) ==
  IF pos > Len(content) THEN 0
  ELSE IF content[pos] = LF THEN pos
  ELSE FindLF(content, pos + 1)

\* Lines::next on a readable file: read through the next LF (or to the end),
\* then drop a trailing LF and, after it, a trailing CR.
StripEol(raw) ==
  IF raw # <<>> /\ Last(raw) = LF
  THEN LET s == Front(raw)
       IN  IF s # <<>> /\ Last(s) = CR THEN Front(s) ELSE s
  ELSE raw

ReadLine(content, pos) ==
  LET j   == FindLF(content, pos)
      end == IF j = 0 THEN Len(content) ELSE j
  IN  [line |-> StripEol(SubSeq(content, pos, end)), pos |-> end + 1]

\* format!("{:6}", n): decimal digits, right-aligned in at least 6 columns
DigitChar(d) == <<"0", "1", "2", "3", "4", "5", "6", "7", "8", "9">>[d + 1]

RECURSIVE Decimal(_)
Decimal(n) ==
  IF n < 10 THEN <<DigitChar(n)>>
  ELSE Append(Decimal(n \div 10), DigitChar(n % 10))

PadLeft(s, width) ==
  IF Len(s) >= width THEN s ELSE Repeat(" ", width - Len(s)) \o s

\* a counter that starts at 0
LineNumberFromZero(i) == i

\* the counter printed for the line at zero-based index i
LineNumber(i) == i + 1

\* the string_buffer built for the line at zero-based index i
StringBuffer(i, line, number, show_ends) ==
  LET base == IF number
              THEN PadLeft(Decimal(LineNumber(i)), 6) \o <<" ">> \o line
              ELSE line
  IN  IF show_ends THEN Append(base, "$") ELSE base

\* File::open succeeded: file_to_lines starts on a fresh reader
CatOpen ==
  /\ cat_pc = "loop"
  /\ cat_idx <= Len(cat_args.files)
  /\ LET path == cat_args.files[cat_idx]
     IN  /\ CatOpenResult(cat_fs[path]) = "ok"
         /\ cat_opened' = Append(cat_opened, path)
  /\ cat_pc' = "read"
  /\ cat_pos' = 1
  /\ cat_lines' = <<>>
  /\ cat_mark' = Len(cat_stdout)
  /\ cat_printed' = <<>>
  /\ UNCHANGED <<cat_args, cat_fs, cat_idx, cat_i, cat_stdout, cat_stderr,
                 cat_status, cat_finished>>
  /\ UNCHANGED <<touch_vars, parse_vars>>

\* File::open failed: diagnostic on standard error, exit(1)
CatOpenFail ==
  /\ cat_pc = "loop"
  /\ cat_idx <= Len(cat_args.files)
  /\ LET path == cat_args.files[cat_idx]
         res  == CatOpenResult(cat_fs[path])
     IN  /\ res # "ok"
         /\ cat_opened' = Append(cat_opened, path)
         /\ cat_stderr' = Append(cat_stderr, CatDiagnostic(res, path))
  /\ cat_status' = 1
  /\ cat_pc' = "exited"
  /\ UNCHANGED <<cat_args, cat_fs, cat_idx, cat_pos, cat_lines, cat_i,
                 cat_stdout, cat_mark, cat_printed, cat_finished>>
  /\ UNCHANGED <<touch_vars, parse_vars>>

\* One Lines::next() of file_to_lines on a regular file, mapped through
\* unwrap_or_default and pushed by collect; None ends the collection.
CatReadFile ==
  /\ cat_pc = "read"
  /\ LET node == cat_fs[cat_args.files[cat_idx]]
     IN  /\ node.kind = "file"
         /\ IF cat_pos > Len(node.content)
            THEN /\ cat_pc' = "print"
                 /\ cat_i' = 0
                 /\ UNCHANGED <<cat_pos, cat_lines>>
            ELSE LET r == ReadLine(node.content, cat_pos)
                 IN  /\ cat_lines' = Append(cat_lines, r.line)
                     /\ cat_pos' = r.pos
                     /\ UNCHANGED <<cat_pc, cat_i>>
  /\ UNCHANGED <<cat_args, cat_fs, cat_idx, cat_stdout, cat_mark, cat_printed,
                 cat_stderr, cat_status, cat_opened, cat_finished>>
  /\ UNCHANGED <<touch_vars, parse_vars>>

\* One Lines::next() on a directory: read fails with EISDIR and consumes
\* nothing, Lines yields Some(Err), unwrap_or_default turns it into "" and
\* collect pushes it; the iterator never yields None.  When the Vec cannot
\* grow any more the allocation failure aborts the process (SIGABRT).
CatReadDir ==
  /\ cat_pc = "read"
  /\ cat_fs[cat_args.files[cat_idx]].kind = "dir"
  /\ IF Len(cat_lines) < MemCap
     THEN /\ cat_lines' = Append(cat_lines, <<>>)
          /\ UNCHANGED <<cat_pc, cat_status>>
     ELSE /\ cat_pc' = "aborted"
          /\ cat_status' = 134
          /\ UNCHANGED cat_lines
  /\ UNCHANGED <<cat_args, cat_fs, cat_idx, cat_pos, cat_i, cat_stdout,
                 cat_mark, cat_printed, cat_stderr, cat_opened, cat_finished>>
  /\ UNCHANGED <<touch_vars, parse_vars>>

\* one iteration of `for (i, line) in lines.iter().enumerate()`
CatPrintLine ==
  /\ cat_pc = "print"
  /\ cat_i < Len(cat_lines)
  /\ LET buf == StringBuffer(cat_i, cat_lines[cat_i + 1], cat_args.number,
                             cat_args.show_ends)
     IN  /\ cat_stdout' = cat_stdout \o buf \o <<LF>>
         /\ cat_printed' = Append(cat_printed, buf)
  /\ cat_i' = cat_i + 1
  /\ UNCHANGED <<cat_args, cat_fs, cat_pc, cat_idx, cat_pos, cat_lines,
                 cat_mark, cat_stderr, cat_status, cat_opened, cat_finished>>
  /\ UNCHANGED <<touch_vars, parse_vars>>

\* the inner loop is over: on to the next path
CatNextPath ==
  /\ cat_pc = "print"
  /\ cat_i = Len(cat_lines)
  /\ cat_finished' = Append(cat_finished, cat_args.files[cat_idx])
  /\ cat_idx' = cat_idx + 1
  /\ cat_pc' = "loop"
  /\ UNCHANGED <<cat_args, cat_fs, cat_pos, cat_lines, cat_i, cat_stdout,
                 cat_mark, cat_printed, cat_stderr, cat_status, cat_opened>>
  /\ UNCHANGED <<touch_vars, parse_vars>>

\* main returns: exit status 0
CatReturn ==
  /\ cat_pc = "loop"
  /\ cat_idx > Len(cat_args.files)
  /\ cat_pc' = "done"
  /\ cat_status' = 0
  /\ UNCHANGED <<cat_args, cat_fs, cat_idx, cat_pos, cat_lines, cat_i,
                 cat_stdout, cat_mark, cat_printed, cat_stderr, cat_opened,
                 cat_finished>>
  /\ UNCHANGED <<touch_vars, parse_vars>>

CatNext ==
  \/ CatOpen
  \/ CatOpenFail
  \/ CatReadFile
  \/ CatReadDir
  \/ CatPrintLine
  \/ CatNextPath
  \/ CatReturn

-----------------------------------------------------------------------------
(* rtouch: parse_time *)

\* An instant: whole seconds since 1970-01-01T00:00:00Z (floor) and the
\* milliseconds after them.
Instant(secs, millis) == [secs |-> secs, millis |-> millis]

\* The `time` argument, as the fields a format string can pick out of it:
\*   YYYY-MM-DD <sep> HH:MM:SS [.mmm] [+-HHMM]
\* frac is -1 when the string has no fractional part; off is the offset in
\* minutes east of UTC, has_off tells whether the string carries one.
ParseYears == {1969, 1970, 2024}
ParseMonths == {1, 2, 12}
ParseDays == {1, 29, 31}
ParseHours == {0, 23}
ParseMinutes == {0, 59}
ParseSeconds == {0, 59}
ParseFracs == {-1, 0, 500, 999}
ParseSeps == {"T", " ", "", "_"}
ParseOffsets == {-300, 0, 330}

TimeStrings ==
  [year : ParseYears, month : ParseMonths, day : ParseDays, sep : ParseSeps,
   hour : ParseHours, minute : ParseMinutes, second : ParseSeconds,
   frac : ParseFracs, has_off : {TRUE}, off : ParseOffsets]
  \cup
  [year : {2024}, month : {1}, day : {1}, sep : {"T", " "},
   hour : {0}, minute : {0}, second : {0},
   frac : {-1, 500}, has_off : {FALSE}, off : {0}]

\* `formats`, in order: the separator between date and time, and whether
\* ".%3f" follows the seconds.  Every format ends in %z.
formats ==
  << [sep |-> "T", frac |-> TRUE],  [sep |-> "T", frac |-> FALSE],
     [sep |-> " ", frac |-> TRUE],  [sep |-> " ", frac |-> FALSE],
     [sep |-> "",  frac |-> TRUE],  [sep |-> "",  frac |-> FALSE] >>

IsLeapYear(y) == (y % 4 = 0 /\ y % 100 # 0) \/ y % 400 = 0

DaysInMonth(y, m) ==
  IF m = 2 THEN (IF IsLeapYear(y) THEN 29 ELSE 28)
  ELSE IF m \in {4, 6, 9, 11} THEN 30 ELSE 31

\* days from 1970-01-01 to y-m-d in the proleptic Gregorian calendar
DaysFromCivil(y, m, d) ==
  LET yy  == IF m <= 2 THEN y - 1 ELSE y
      era == yy \div 400
      yoe == yy - era * 400
      mp  == IF m > 2 THEN m - 3 ELSE m + 9
      doy == (153 * mp + 2) \div 5 + d - 1
      doe == yoe * 365 + yoe \div 4 - yoe \div 100 + doy
  IN  era * 146097 + doe - 719468

\* DateTime::parse_from_str(time, format): Err unless the string has the
\* format's separator, a fractional part exactly when the format has one,
\* an offset, and names a day that exists; Ok carries the instant denoted,
\* the offset taken into account.
\* (Every format that accepts a string yields the same instant, so which
\* of them is first to accept it does not change what parse_time returns.)
ParseFromStr(str, format) ==
  IF /\ str.sep = format.sep
     /\ (str.frac >= 0) = format.frac
     /\ str.has_off
     /\ str.day <= DaysInMonth(str.year, str.month)
  THEN LET local == DaysFromCivil(str.year, str.month, str.day) * 86400
                      + str.hour * 3600 + str.minute * 60 + str.second
       IN  [ok |-> TRUE,
            at |-> Instant(local - str.off * 60,
                           IF str.frac >= 0 THEN str.frac ELSE 0)]
  ELSE [ok |-> FALSE, at |-> Instant(0, 0)]

\* offset.signed_duration_since(epoch).num_seconds(): whole seconds,
\* rounded towards zero
NumSeconds(at) ==
  IF at.secs < 0 /\ at.millis > 0 THEN at.secs + 1 ELSE at.secs

\* `n as u64` for an i64 n: the value is low + wrapped * 2^64
AsU64(n) == [wrapped |-> IF n < 0 THEN 1 ELSE 0, low |-> n]

\* SystemTime::UNIX_EPOCH + Duration::from_secs(u): the addition is checked
\* against the i64 seconds of the system clock and panics on overflow
\* ("overflow when adding duration to instant"); any u with wrapped = 1 is
\* above i64::MAX.
EpochPlusSecs(u) ==
  IF u.wrapped = 1
  THEN [tag |-> "Panic", at |-> Instant(0, 0)]
  ELSE [tag |-> "Ok", at |-> Instant(u.low, 0)]

\* the Ok arm of the match: lines 143-149
TimeOfMatch(at) == EpochPlusSecs(AsU64(NumSeconds(at)))

InvalidInput == [tag |-> "Err", at |-> Instant(0, 0)]

\* parse_time from the k-th format on
RECURSIVE ParseTimeFrom(_, _)
ParseTimeFrom(time, k) ==
  IF k > Len(formats) THEN InvalidInput
  ELSE LET r == ParseFromStr(time, formats[k])
       IN  IF r.ok THEN TimeOfMatch(r.at) ELSE ParseTimeFrom(time, k + 1)

ParseTime(time) == ParseTimeFrom(time, 1)

\* parse_time is called; the programs stay idle
ParseInit ==
  /\ parse_input \in TimeStrings
  /\ parse_pc = "loop"
  /\ parse_k = 1
  /\ parse_result = InvalidInput
  \* rcat and rtouch do not run
  /\ cat_args = <<>>
  /\ cat_fs = <<>>
  /\ cat_pc = "idle"
  /\ cat_idx = 1
  /\ cat_pos = 1
  /\ cat_lines = <<>>
  /\ cat_i = 0
  /\ cat_stdout = <<>>
  /\ cat_mark = 0
  /\ cat_printed = <<>>
  /\ cat_stderr = <<>>
  /\ cat_status = -1
  /\ cat_opened = <<>>
  /\ cat_finished = <<>>
  /\ touch_args = <<>>
  /\ touch_fs = <<>>
  /\ touch_fs0 = <<>>
  /\ touch_clock = 0
  /\ touch_time = <<>>
  /\ touch_file_times = <<>>
  /\ touch_pc = "idle"
  /\ touch_idx = 1
  /\ touch_stderr = <<>>
  /\ touch_calls = <<>>
  /\ touch_ref = <<>>

\* one iteration of `for format in formats` whose parse fails: continue
ParseContinue ==
  /\ parse_pc = "loop"
  /\ parse_k <= Len(formats)
  /\ ~ParseFromStr(parse_input, formats[parse_k]).ok
  /\ parse_k' = parse_k + 1
  /\ UNCHANGED <<parse_input, parse_pc, parse_result>>
  /\ UNCHANGED <<cat_vars, touch_vars>>

\* the iteration whose parse succeeds: return Ok(..), or panic in the `+`
ParseMatch ==
  /\ parse_pc = "loop"
  /\ parse_k <= Len(formats)
  /\ LET r == ParseFromStr(parse_input, formats[parse_k])
     IN  /\ r.ok
         /\ parse_result' = TimeOfMatch(r.at)
         /\ parse_pc' = IF parse_result'.tag = "Panic"
                        THEN "panicked" ELSE "returned"
  /\ UNCHANGED <<parse_input, parse_k>>
  /\ UNCHANGED <<cat_vars, touch_vars>>

\* no format matched: Err(InvalidInput)
ParseFail ==
  /\ parse_pc = "loop"
  /\ parse_k > Len(formats)
  /\ parse_result' = InvalidInput
  /\ parse_pc' = "returned"
  /\ UNCHANGED <<parse_input, parse_k>>
  /\ UNCHANGED <<cat_vars, touch_vars>>

ParseNext ==
  \/ ParseContinue
  \/ ParseMatch
  \/ ParseFail

-----------------------------------------------------------------------------
(* rtouch *)

TouchPaths == {"p1", "p2"}

\* the wall clock when rtouch starts, in seconds
StartClock == 1800000000

None == <<>>
Some(x) == <<x>>

\* The stamps a path carries before the run: distinct for every path and
\* field, and different from the start of the run.
InitialAtime(path) == Instant(IF path = "p1" THEN 1000 ELSE 3000, 111)
InitialMtime(path) == Instant(IF path = "p1" THEN 2000 ELSE 4000, 222)

\* What a path names:
\*   "file"      a regular file, readable and writable
\*   "readonly"  a regular file, readable, open for writing is refused
\*   "locked"    a regular file, open for reading or writing is refused
\*   "dir"       a directory: opens for reading, open for writing is EISDIR
\*   "missing"   nothing; creatable tells whether File::create can succeed
\*               (its parent directory exists and is writable)
TouchNodes(path) ==
  [kind : {"file", "readonly", "locked", "dir"}, creatable : {FALSE},
   size : {3}, atime : {InitialAtime(path)}, mtime : {InitialMtime(path)}]
  \cup
  [kind : {"missing"}, creatable : BOOLEAN,
   size : {0}, atime : {Instant(0, 0)}, mtime : {Instant(0, 0)}]

Exists(node) == node.kind # "missing"

\* the -t strings of the runs: with milliseconds, before the epoch, and
\* without a timezone offset (matches no format)
TouchTimeStrings ==
  { [year |-> 2024, month |-> 1, day |-> 1, sep |-> "T", hour |-> 0,
     minute |-> 0, second |-> 59, frac |-> 500, has_off |-> TRUE, off |-> 0],
    [year |-> 1969, month |-> 12, day |-> 31, sep |-> " ", hour |-> 23,
     minute |-> 59, second |-> 59, frac |-> -1, has_off |-> TRUE, off |-> 0],
    [year |-> 2024, month |-> 1, day |-> 1, sep |-> "T", hour |-> 0,
     minute |-> 0, second |-> 0, frac |-> -1, has_off |-> FALSE, off |-> 0] }

\* clap: -a conflicts with -m, -r conflicts with -t, FILE is required
TouchArgs ==
  { a \in [update_access_only : BOOLEAN, no_create : BOOLEAN,
           update_modification_only : BOOLEAN,
           reference_file : {None} \cup {Some(p) : p \in TouchPaths},
           time : {None} \cup {Some(t) : t \in TouchTimeStrings},
           files : SeqsUpTo(TouchPaths, MaxFiles) \ {<<>>}] :
      /\ ~(a.update_access_only /\ a.update_modification_only)
      /\ ~(a.reference_file # None /\ a.time # None) }

\* FileTimes: each field is None (leave the stamp alone) or Some(instant)
FileTimesNew == [accessed |-> None, modified |-> None]
SetAccessed(ft, t) == [ft EXCEPT !.accessed = Some(t)]
SetModified(ft, t) == [ft EXCEPT !.modified = Some(t)]

\* rtouch starts; the other programs stay idle
TouchInit ==
  /\ touch_args \in TouchArgs
  /\ touch_fs \in {f \in [TouchPaths -> UNION {TouchNodes(p) : p \in TouchPaths}] :
                     \A p \in TouchPaths : f[p] \in TouchNodes(p)}
  /\ touch_fs0 = touch_fs
  /\ touch_clock = StartClock
  /\ touch_time = Instant(0, 0)
  /\ touch_file_times = FileTimesNew
  /\ touch_pc = "start"
  /\ touch_idx = 1
  /\ touch_stderr = <<>>
  /\ touch_calls = <<>>
  /\ touch_ref = None
  \* rcat does not run, parse_time runs inside main
  /\ cat_args = <<>>
  /\ cat_fs = <<>>
  /\ cat_pc = "idle"
  /\ cat_idx = 1
  /\ cat_pos = 1
  /\ cat_lines = <<>>
  /\ cat_i = 0
  /\ cat_stdout = <<>>
  /\ cat_mark = 0
  /\ cat_printed = <<>>
  /\ cat_stderr = <<>>
  /\ cat_status = -1
  /\ cat_opened = <<>>
  /\ cat_finished = <<>>
  /\ parse_input = <<>>
  /\ parse_pc = "idle"
  /\ parse_k = 1
  /\ parse_result = <<>>

\* the wall clock at a given second of the run
ClockInstant(clock) == Instant(clock, 250)

\* a match whose Err arm clears file_times
MainTimeArmClearing(ft, parsed, args) ==
  IF parsed.tag = "Ok"
  THEN IF args.update_access_only THEN SetAccessed(ft, parsed.at)
       ELSE IF args.update_modification_only THEN SetModified(ft, parsed.at)
       ELSE SetModified(SetAccessed(ft, parsed.at), parsed.at)
  ELSE FileTimesNew

\* lines 53-68: what the match on parse_time(time) leaves in file_times
MainTimeArm(ft, parsed, args) ==
  IF parsed.tag = "Ok"
  THEN IF args.update_access_only THEN SetAccessed(ft, parsed.at)
       ELSE IF args.update_modification_only THEN SetModified(ft, parsed.at)
       ELSE SetModified(SetAccessed(ft, parsed.at), parsed.at)
  ELSE ft

\* a parse_reference whose last arm takes both fields from accessed()
ParseReferenceAccessedTwice(path, args, fs) ==
  LET node == fs[path]
  IN  IF node.kind = "missing" THEN [tag |-> "NotFound", times |-> FileTimesNew]
      ELSE IF node.kind = "locked"
      THEN [tag |-> "PermissionDenied", times |-> FileTimesNew]
      ELSE [tag |-> "Ok",
            times |->
              IF args.update_access_only
              THEN SetAccessed(FileTimesNew, node.atime)
              ELSE IF args.update_modification_only
              THEN SetModified(FileTimesNew, node.mtime)
              ELSE SetModified(SetAccessed(FileTimesNew, node.atime),
                               node.atime)]

\* parse_reference: File::open(path)?.metadata()?, then the fields the
\* flags ask for
ParseReference(path, args, fs) ==
  LET node == fs[path]
  IN  IF node.kind = "missing" THEN [tag |-> "NotFound", times |-> FileTimesNew]
      ELSE IF node.kind = "locked"
      THEN [tag |-> "PermissionDenied", times |-> FileTimesNew]
      ELSE [tag |-> "Ok",
            times |->
              IF args.update_access_only
              THEN SetAccessed(FileTimesNew, node.atime)
              ELSE IF args.update_modification_only
              THEN SetModified(FileTimesNew, node.mtime)
              ELSE SetModified(SetAccessed(FileTimesNew, node.atime),
                               node.mtime)]

\* file.set_times(time): a None field leaves the stamp as it is
SetTimes(node, ft) ==
  [node EXCEPT
     !.atime = IF ft.accessed = None THEN @ ELSE ft.accessed[1],
     !.mtime = IF ft.modified = None THEN @ ELSE ft.modified[1]]

\* File::create(file) on a missing path: an empty file stamped by the clock
CreatedNode(clock) ==
  [kind |-> "file", creatable |-> FALSE, size |-> 0,
   atime |-> ClockInstant(clock), mtime |-> ClockInstant(clock)]

\* an update_file that ignores no_create
ShouldCreateAlways(args) == TRUE

\* whether update_file goes on to File::create after NotFound
ShouldCreate(args) == ~args.no_create

\* update_file: the filesystem it leaves, its Result, what it printed, and
\* whether set_times was applied
RECURSIVE UpdateFile(_, _, _, _, _)
UpdateFile(fs, file, time, args, clock) ==
  LET node == fs[file]
      done(f, res, err, set) ==
        [fs |-> f, result |-> res, stderr |-> err, set |-> set]
  IN  CASE node.kind = "file" ->
             done([fs EXCEPT ![file] = SetTimes(node, time)], "Ok", <<>>, TRUE)
        [] node.kind \in {"readonly", "locked"} ->
             done(fs, "PermissionDenied", <<>>, FALSE)
        [] node.kind = "dir" ->
             done(fs, "IsADirectory", <<>>, FALSE)
        [] node.kind = "missing" ->
             IF ShouldCreate(args)
             THEN IF node.creatable
                  THEN UpdateFile([fs EXCEPT ![file] = CreatedNode(clock)],
                                  file, time, args, clock)
                  ELSE done(fs, "Ok", <<"Error creating file: ">>, FALSE)
             ELSE done(fs, "Ok", <<>>, FALSE)

\* lines 100-113: the diagnostic for an update_file error
UpdateDiagnostic(kind) ==
  CASE kind = "PermissionDenied" -> "Error updating file: Permission denied"
    [] kind = "Unsupported"      -> "Error updating file: Unsupported operation"
    [] OTHER                     -> "Error updating file: "

\* lines 77-91: the diagnostic for a parse_reference error
ReferenceDiagnostic(kind) ==
  CASE kind = "NotFound" -> "Error parsing reference file: File not found"
    [] kind = "PermissionDenied" ->
         "Error parsing reference file: Permission denied"
    [] kind = "Unsupported" ->
         "Error parsing reference file: Unsupported operation"
    [] OTHER -> "Error parsing reference file: "

\* the wall clock advances
TouchTick ==
  /\ touch_pc \in {"start", "resolve", "update"}
  /\ touch_clock < StartClock + MaxTicks
  /\ touch_clock' = touch_clock + 1
  /\ UNCHANGED <<touch_args, touch_fs, touch_fs0, touch_time,
                 touch_file_times, touch_pc, touch_idx, touch_stderr,
                 touch_calls, touch_ref>>
  /\ UNCHANGED <<cat_vars, parse_vars>>

\* lines 45-49: time = now, file_times = both fields at time
TouchStart ==
  /\ touch_pc = "start"
  /\ touch_time' = ClockInstant(touch_clock)
  /\ touch_file_times' =
       SetModified(SetAccessed(FileTimesNew, touch_time'), touch_time')
  /\ touch_pc' = "resolve"
  /\ UNCHANGED <<touch_args, touch_fs, touch_fs0, touch_clock, touch_idx,
                 touch_stderr, touch_calls, touch_ref>>
  /\ UNCHANGED <<cat_vars, parse_vars>>

\* lines 52-69: -t was given
TouchTime ==
  /\ touch_pc = "resolve"
  /\ touch_args.time # None
  /\ LET parsed == ParseTime(touch_args.time[1])
     IN  IF parsed.tag = "Panic"
         THEN /\ touch_pc' = "panicked"
              /\ UNCHANGED <<touch_file_times, touch_stderr>>
         ELSE /\ touch_file_times' =
                   MainTimeArm(touch_file_times, parsed, touch_args)
              /\ touch_stderr' =
                   IF parsed.tag = "Err"
                   THEN Append(touch_stderr, "Error parsing time: ")
                   ELSE touch_stderr
              /\ touch_pc' = "update"
  /\ UNCHANGED <<touch_args, touch_fs, touch_fs0, touch_clock, touch_time,
                 touch_idx, touch_calls, touch_ref>>
  /\ UNCHANGED <<cat_vars, parse_vars>>

\* lines 71-94: -r was given
TouchReference ==
  /\ touch_pc = "resolve"
  /\ touch_args.time = None
  /\ touch_args.reference_file # None
  /\ LET r == ParseReference(touch_args.reference_file[1], touch_args,
                             touch_fs)
     IN  /\ touch_ref' = Some(r)
         /\ IF r.tag = "Ok"
            THEN /\ touch_file_times' = r.times
                 /\ UNCHANGED touch_stderr
            ELSE /\ touch_stderr' =
                      Append(touch_stderr, ReferenceDiagnostic(r.tag))
                 /\ UNCHANGED touch_file_times
  /\ touch_pc' = "update"
  /\ UNCHANGED <<touch_args, touch_fs, touch_fs0, touch_clock, touch_time,
                 touch_idx, touch_calls>>
  /\ UNCHANGED <<cat_vars, parse_vars>>

\* neither -t nor -r
TouchDefault ==
  /\ touch_pc = "resolve"
  /\ touch_args.time = None
  /\ touch_args.reference_file = None
  /\ touch_pc' = "update"
  /\ UNCHANGED <<touch_args, touch_fs, touch_fs0, touch_clock, touch_time,
                 touch_file_times, touch_idx, touch_stderr, touch_calls,
                 touch_ref>>
  /\ UNCHANGED <<cat_vars, parse_vars>>

\* lines 97-115: one iteration of `for file in &args.files`
TouchUpdate ==
  /\ touch_pc = "update"
  /\ touch_idx <= Len(touch_args.files)
  /\ LET file == touch_args.files[touch_idx]
         r    == UpdateFile(touch_fs, file, touch_file_times, touch_args,
                            touch_clock)
     IN  /\ touch_fs' = r.fs
         /\ touch_stderr' =
              touch_stderr \o r.stderr \o
                (IF r.result = "Ok" THEN <<>>
                 ELSE <<UpdateDiagnostic(r.result)>>)
         /\ touch_calls' =
              Append(touch_calls,
                     [file |-> file, pre |-> touch_fs[file],
                      post |-> r.fs[file], result |-> r.result,
                      set |-> r.set, stderr |-> r.stderr])
  /\ touch_idx' = touch_idx + 1
  /\ UNCHANGED <<touch_args, touch_fs0, touch_clock, touch_time,
                 touch_file_times, touch_pc, touch_ref>>
  /\ UNCHANGED <<cat_vars, parse_vars>>

\* main returns Ok(())
TouchReturn ==
  /\ touch_pc = "update"
  /\ touch_idx > Len(touch_args.files)
  /\ touch_pc' = "done"
  /\ UNCHANGED <<touch_args, touch_fs, touch_fs0, touch_clock, touch_time,
                 touch_file_times, touch_idx, touch_stderr, touch_calls,
                 touch_ref>>
  /\ UNCHANGED <<cat_vars, parse_vars>>

TouchNext ==
  \/ TouchTick
  \/ TouchStart
  \/ TouchTime
  \/ TouchReference
  \/ TouchDefault
  \/ TouchUpdate
  \/ TouchReturn

-----------------------------------------------------------------------------
(* Properties of rcat *)

\* the number of lines of a text: one per LF, and one more for what follows
\* the last LF
LineCount(content) ==
  Cardinality({k \in 1..Len(content) : content[k] = LF})
    + (IF content # <<>> /\ Last(content) # LF THEN 1 ELSE 0)

DigitValue(c) ==
  CASE c = "0" -> 0 [] c = "1" -> 1 [] c = "2" -> 2 [] c = "3" -> 3
    [] c = "4" -> 4 [] c = "5" -> 5 [] c = "6" -> 6 [] c = "7" -> 7
    [] c = "8" -> 8 [] c = "9" -> 9 [] OTHER -> -1

RECURSIVE DecimalValue(_)
DecimalValue(digits) ==
  IF digits = <<>> THEN 0
  ELSE DecimalValue(Front(digits)) * 10 + DigitValue(Last(digits))

\* field is the decimal numeral of n (no sign, no leading zero) with nothing
\* but spaces before it
RightAlignedNumeral(field, n) ==
  \E k \in 0..(Len(field) - 1) :
    LET digits == SubSeq(field, k + 1, Len(field))
    IN  /\ \A j \in 1..k : field[j] = " "
        /\ \A j \in 1..Len(digits) : DigitValue(digits[j]) >= 0
        /\ digits[1] # "0"
        /\ DecimalValue(digits) = n

CatCurrent == cat_fs[cat_args.files[cat_idx]]

CatFileDone == cat_pc = "print" /\ cat_i = Len(cat_lines)

CatOpens(path) == cat_fs[path].kind \in {"file", "dir"}

\* C4: with no flags, what rcat writes to standard output for a readable
\* file is the file's raw content, character for character.
C4_RawRoundTrip ==
  (CatFileDone /\ ~cat_args.number /\ ~cat_args.show_ends)
    => SubSeq(cat_stdout, cat_mark + 1, Len(cat_stdout)) = CatCurrent.content

\* C5: with -n, the N-th line printed for a file is N as a decimal numeral
\* right-aligned in 6 columns, one space, then the text of the file's N-th
\* line (and "$" after it under -E); N starts at 1 for each file and runs to
\* the file's line count.
C5_NumberedLines ==
  (cat_pc \in {"print", "loop", "done", "exited"} /\ cat_args.number) =>
    /\ \A n \in 1..Len(cat_printed) :
         LET buf  == cat_printed[n]
             text == cat_lines[n]
             body == IF cat_args.show_ends THEN Front(buf) ELSE buf
         IN  /\ cat_args.show_ends => Last(buf) = "$"
             /\ Len(body) = 7 + Len(text)
             /\ RightAlignedNumeral(SubSeq(body, 1, 6), n)
             /\ body[7] = " "
             /\ SubSeq(body, 8, Len(body)) = text
    /\ CatFileDone => Len(cat_printed) = LineCount(CatCurrent.content)

\* C5 witness: the second file of a run is "a", "bb", "ccc"; its three lines
\* have been printed as "     1 a", "     2 bb", "     3 ccc" after a first
\* file that printed lines of its own.
C5_Witness ==
  /\ cat_args.number /\ ~cat_args.show_ends
  /\ cat_idx = 2 /\ CatFileDone
  /\ cat_mark > 0
  /\ CatCurrent.content = ThreeLines
  /\ cat_printed =
       << <<" ", " ", " ", " ", " ", "1", " ", "a">>,
          <<" ", " ", " ", " ", " ", "2", " ", "b", "b">>,
          <<" ", " ", " ", " ", " ", "3", " ", "c", "c", "c">> >>

\* paths are opened in the order given
C8_InOrder ==
  /\ Len(cat_opened) <= Len(cat_args.files)
  /\ \A k \in 1..Len(cat_opened) : cat_opened[k] = cat_args.files[k]

\* after exit(1): the path at cat_idx is the first that does not open, the
\* one diagnostic names it, every earlier path has been printed and none
\* after it was opened
C8_FailFast ==
  cat_pc = "exited" =>
    /\ cat_status = 1
    /\ ~CatOpens(cat_args.files[cat_idx])
    /\ \A j \in 1..(cat_idx - 1) : CatOpens(cat_args.files[j])
    /\ Len(cat_stderr) = 1 /\ cat_stderr[1].path = cat_args.files[cat_idx]
    /\ cat_finished = SubSeq(cat_args.files, 1, cat_idx - 1)
    /\ cat_opened = SubSeq(cat_args.files, 1, cat_idx)

\* a process that has ended after opening every path ended with status 0
C8_ExitZero ==
  (cat_status # -1 /\ \A j \in 1..Len(cat_args.files) :
                        CatOpens(cat_args.files[j]))
    => cat_status = 0

\* C8: paths are opened in the order given; at the first path that does not
\* open a diagnostic naming it is written, the status is 1, every earlier
\* path has been printed and no later path is opened; when every path
\* opens, the exit status is 0.
C8_OrderedFailFast == C8_InOrder /\ C8_FailFast /\ C8_ExitZero

\* C10: file_to_lines always returns: the collection of lines of an opened
\* path ends, it never grows until the process is out of memory.
C10_CollectionEnds == cat_pc # "aborted"

-----------------------------------------------------------------------------
(* Properties of rtouch *)

TouchCalls == {touch_calls[k] : k \in 1..Len(touch_calls)}

\* C1: on a target that existed and was updated, -a leaves the modification
\* time as it was and sets the access time, -m leaves the access time as it
\* was and sets the modification time, and without either both are set;
\* whatever the source of the time.
C1_FieldsFollowFlags ==
  \A c \in TouchCalls :
    (c.set /\ Exists(c.pre)) =>
      /\ touch_args.update_access_only =>
           /\ c.post.mtime = c.pre.mtime
           /\ Some(c.post.atime) = touch_file_times.accessed
      /\ touch_args.update_modification_only =>
           /\ c.post.atime = c.pre.atime
           /\ Some(c.post.mtime) = touch_file_times.modified
      /\ (~touch_args.update_access_only
            /\ ~touch_args.update_modification_only) =>
           /\ Some(c.post.atime) = touch_file_times.accessed
           /\ Some(c.post.mtime) = touch_file_times.modified

\* C2 as stated: a target that is missing before update_file exists as an
\* empty file after it when no-create is unset, and is still missing, with
\* no error returned, when no-create is set.
C2_MissingCreatedOrLeft ==
  \A c \in TouchCalls :
    ~Exists(c.pre) =>
      IF touch_args.no_create
      THEN ~Exists(c.post) /\ c.result = "Ok"
      ELSE c.post.kind = "file" /\ c.post.size = 0

\* C2 amended: as stated when File::create succeeds; when File::create
\* fails, "Error creating file" is printed, the path is still missing and
\* update_file returns Ok.
C2_MissingCreatedWhenPossible ==
  \A c \in TouchCalls :
    ~Exists(c.pre) =>
      IF touch_args.no_create
      THEN ~Exists(c.post) /\ c.result = "Ok" /\ c.stderr = <<>>
      ELSE IF c.pre.creatable
      THEN c.post.kind = "file" /\ c.post.size = 0
      ELSE /\ ~Exists(c.post) /\ c.result = "Ok"
           /\ c.stderr = <<"Error creating file: ">>

\* C2 witness: one run created a missing target and failed to create
\* another.
C2_Witness ==
  /\ touch_pc = "done"
  /\ \E c \in TouchCalls : ~Exists(c.pre) /\ c.post.kind = "file"
  /\ \E c \in TouchCalls : ~Exists(c.pre) /\ ~Exists(c.post)
                             /\ c.stderr # <<>>

TouchRefReadable ==
  /\ touch_args.reference_file # None
  /\ touch_fs0[touch_args.reference_file[1]].kind
       \in {"file", "readonly", "dir"}

\* C3: with -r REF, REF readable, and neither -a nor -m, every target that
\* was updated, created ones included, carries the access and modification
\* time REF had when the run started, at its update and from then on.
C3_ReferenceTimesCopied ==
  (TouchRefReadable /\ ~touch_args.update_access_only
     /\ ~touch_args.update_modification_only) =>
    LET ref == touch_fs0[touch_args.reference_file[1]]
    IN  \A c \in TouchCalls :
          c.set =>
            /\ c.post.atime = ref.atime /\ c.post.mtime = ref.mtime
            /\ touch_fs[c.file].atime = ref.atime
            /\ touch_fs[c.file].mtime = ref.mtime

\* C3 witness: a finished run with -r REF that created a target other than
\* REF and stamped it with REF's times.
C3_Witness ==
  /\ touch_pc = "done"
  /\ TouchRefReadable
  /\ ~touch_args.update_access_only /\ ~touch_args.update_modification_only
  /\ \E c \in TouchCalls :
       /\ c.set /\ ~Exists(c.pre)
       /\ c.file # touch_args.reference_file[1]
       /\ c.post.mtime = InitialMtime(touch_args.reference_file[1])

TouchTimeUnparsable ==
  /\ touch_args.time # None
  /\ \A k \in 1..Len(formats) : ~ParseFromStr(touch_args.time[1], formats[k]).ok

-----------------------------------------------------------------------------
(* Properties of parse_time *)

\* the instant the matched string denotes
ParseDenoted == ParseFromStr(parse_input, formats[parse_k]).at

ParseReturnedOk == parse_pc = "returned" /\ parse_result.tag = "Ok"

\* C6: the instant parse_time returns is the instant the string denotes, to
\* the millisecond when the format has a fractional part and to the second
\* otherwise.
C6_ParseRoundTrip ==
  ParseReturnedOk =>
    /\ parse_result.at.secs = ParseDenoted.secs
    /\ formats[parse_k].frac => parse_result.at.millis = ParseDenoted.millis

\* C9: parse_time never panics, and a well-formed string that denotes an
\* instant before the epoch yields that instant.
C9_ParseTotal ==
  /\ parse_pc # "panicked"
  /\ (ParseReturnedOk /\ ParseDenoted.secs < 0) =>
       parse_result.at.secs = ParseDenoted.secs

-----------------------------------------------------------------------------
(* The three specifications *)

SpecCat == CatInit /\ [][CatNext]_vars

SpecTouch == TouchInit /\ [][TouchNext]_vars

SpecParse == ParseInit /\ [][ParseNext]_vars

=============================================================================
